---- MODULE Spec2Model ----
(***************************************************************************)
(* A model of the cdse-dl client library: the token store (Credentials),   *)
(* the authenticating session (CDSEAuthSession) shared by concurrent       *)
(* workers, and the module-level helpers of cdse_dl/auth.py.               *)
(*                                                                         *)
(* Python dictionaries are modelled as TLA+ functions whose domain is the  *)
(* set of keys that are present; reading a key that is not in the domain   *)
(* is Python's KeyError.                                                   *)
(***************************************************************************)
EXTENDS Integers, Sequences, FiniteSets, TLC

(***************************************************************************)
(* Bounds of the model.                                                    *)
(***************************************************************************)
\* threads that share one CDSEAuthSession (the download pool's workers)
NumWorkers == 2
\* successful token responses of the identity provider in one run, the
\* initial acquisition included
MaxTokens == 3
\* advances of the local clock in one run
MaxTicks == 2
\* the times and durations, in seconds, is_token_expired is called with
MaxTime == 3
\* redirects followed for one request
MaxHops == 3
\* the length of the remote product, in bytes
MaxLen == 3
\* the bytes of one chunk of response.iter_content
ChunkBytes == 2

\* the hex digests of the model are the numbers below HashMod
HashMod == 3
\* the descriptors of one batch of download_all
MaxBatch == 5
\* the calls of download_all on one Downloader
MaxCalls == 2
\* the max_num_workers a Downloader is constructed with, when given
MaxWorkersArg == 2
\* the tokens of a datetime string: dates and slashes
MaxText == 5
\* the elements of a list given as a datetime interval
MaxList == 3
\* the result pages of a search, the products of one page, and the limit
MaxPages == 3
MaxPageSize == 2
MaxLimit == 3
\* the requests of one OpenSearch get that are followed
MaxRequests == 4

(***************************************************************************)
(* Program constants.                                                      *)
(***************************************************************************)
\* is_token_expired(..., buffer: float = 60)
DEFAULT_BUFFER == 60

\* Downloader.__init__: max_num_workers when the caller gives none
DEFAULT_MAX_NUM_WORKERS == 4

\* SearchBase.get: the page size asked for when neither top nor limit is
\* given, and the largest page size
DEFAULT_TOP == 20
MAX_TOP == 1000

AUTH_DOMAINS ==
    { "catalogue.dataspace.copernicus.eu",
      "download.dataspace.copernicus.eu",
      "zipper.dataspace.copernicus.eu" }

IDENTITY_HOST == "identity.dataspace.copernicus.eu"

(***************************************************************************)
(* The environment: the local clock and the identity provider.             *)
(***************************************************************************)
\* one advance of time.time(), in seconds
ClockStep == DEFAULT_BUFFER \div 2

\* expires_in values the identity provider hands out: one that the buffer
\* already exhausts and one that lasts for one clock step
ExpiresIn == { DEFAULT_BUFFER, DEFAULT_BUFFER + ClockStep }

\* a value of "acquired_time" that a response body itself may carry; it is
\* no value of the local clock
ServerStamp == DEFAULT_BUFFER + 1

Workers == 1 .. NumWorkers

TokenKeys == { "access_token", "refresh_token", "expires_in", "acquired_time" }

\* Python's d.update(n), and d restricted to a set of keys
DictUpdate(d, n) ==
    [ k \in (DOMAIN d) \cup (DOMAIN n) |-> IF k \in DOMAIN n THEN n[k] ELSE d[k] ]

Restrict(d, K) == [ k \in K |-> d[k] ]

\* The JSON bodies of a successful (2xx) token response number id.  RFC 6749
\* requires access_token; refresh_token and expires_in are optional, and a
\* body may hold members the client does not expect (here: acquired_time).
TokenBodies(id) ==
    { Restrict(full, K) :
        full \in [ access_token : {id}, refresh_token : {id},
                   expires_in : ExpiresIn, acquired_time : {ServerStamp} ],
        K \in { K \in SUBSET TokenKeys : "access_token" \in K } }

\* The JSON bodies of an error (non-2xx) response of the identity provider.
ErrorBodies ==
    { [ error |-> "invalid_grant", error_description |-> "Invalid user credentials" ],
      [ error |-> "unknown_error" ],
      [ error_description |-> "Service Unavailable" ],
      [ k \in {} |-> "" ] }

\* What requests.post(AUTH_URL, ...) can bring back: a response with a status
\* and a body that is JSON or not, or no response at all (a network error).
NetworkError == [ net |-> FALSE, status |-> 0, json |-> FALSE, body |-> [ k \in {} |-> "" ] ]

TokenResponses(id) ==
    ( { [ net |-> TRUE, status |-> 200, json |-> TRUE, body |-> b ] : b \in TokenBodies(id) }
      \cup { [ net |-> TRUE, status |-> s, json |-> TRUE, body |-> b ] :
               s \in {401, 500}, b \in ErrorBodies }
      \cup { [ net |-> TRUE, status |-> s, json |-> FALSE, body |-> [ k \in {} |-> "" ] ] :
               s \in {200, 500} }
      \cup { NetworkError } )

\* The responses of a well-behaved identity provider: a complete token (with
\* or without members the client does not expect), a documented error, or
\* none at all.
SessionResponses(id) ==
    ( { [ net |-> TRUE, status |-> 200, json |-> TRUE, body |-> b ] :
          b \in { b \in TokenBodies(id) : TokenKeys \ {"acquired_time"} \subseteq DOMAIN b } }
      \cup { [ net |-> TRUE, status |-> 401, json |-> TRUE,
                body |-> [ error |-> "invalid_grant",
                           error_description |-> "Invalid user credentials" ] ] }
      \cup { NetworkError } )

(***************************************************************************)
(* Exceptions.  `type` is the Python exception class; an APIAuthException  *)
(* carries the two parts of its message.                                   *)
(***************************************************************************)
NoError == [ type |-> "none", error |-> "", detail |-> "" ]

Raise(t) == [ type |-> t, error |-> "", detail |-> "" ]

\* response.raise_for_status() raises for 4xx and 5xx
IsHTTPError(status) == status >= 400 /\ status < 600

\* check_response: on an HTTP error the body is parsed (response.json()),
\* error_info['error'] is indexed and error_description is read with .get
check_response(response) ==
    IF ~IsHTTPError(response.status) THEN NoError
    ELSE IF ~response.json THEN Raise("JSONDecodeError")
    ELSE IF "error" \notin DOMAIN response.body THEN Raise("KeyError")
    ELSE [ type |-> "APIAuthException",
           error |-> response.body["error"],
           detail |-> IF "error_description" \in DOMAIN response.body
                      THEN response.body["error_description"] ELSE "None" ]

\* (mutant) acquired_time is set only when the body does not bring one
response_to_token_info_setdefault(response, now) ==
    DictUpdate([ acquired_time |-> now ], response.body)

\* response_to_token_info: the parsed body with acquired_time set from the
\* local clock
response_to_token_info(response, now) ==
    DictUpdate(response.body, [ acquired_time |-> now ])

\* get_token_info / refresh_token_info: post, check_response, then
\* response_to_token_info.  The result is the exception raised (NoError when
\* a token_info is returned).
GrantError(response) ==
    IF ~response.net THEN Raise("ConnectionError")
    ELSE IF check_response(response).type # "none" THEN check_response(response)
    ELSE IF ~response.json THEN Raise("JSONDecodeError")
    ELSE NoError

\* (mutant) a token that has exactly the buffer left is not yet expired
is_token_expired_strict(now, acquired_time, expires_time, buffer) ==
    (now - acquired_time + buffer) > expires_time

\* is_token_expired(acquired_time, expires_time, buffer) with time.time() = now
is_token_expired(now, acquired_time, expires_time, buffer) ==
    (now - acquired_time + buffer) >= expires_time

\* CDSEAuthSession.rebuild_auth: whether the redirected request still holds
\* the Authorization header, given whether it held it before, the hostname
\* of the request that was redirected and the hostname it is redirected to
rebuild_auth(has_authorization, original_hostname, redirect_hostname) ==
    IF has_authorization
    THEN ~ ( original_hostname # redirect_hostname
             /\ ( redirect_hostname \notin AUTH_DOMAINS
                  \/ original_hostname \notin AUTH_DOMAINS ) )
    ELSE FALSE

(***************************************************************************)
(* State of the shared session and of the workers that call request().     *)
(***************************************************************************)
VARIABLES
    token_info,   \* Credentials.token_info, a dict
    token_lock,   \* Credentials.token_lock: 0 when free, else the holder
    auth,         \* CDSEAuthSession.auth: the token of the BearerAuth object
    clock,        \* time.time()
    fetched_at,   \* history: the clock when the response that brought the
                  \* stored access_token was turned into a token_info
    expires_from, \* history: the response the stored expires_in is from
    pc,           \* where each worker stands in request()
    rd_acquired,  \* is_token_expired's first argument once evaluated: the
                  \* acquired_time read, and the response it is from
    expired,      \* the result of the pre-send is_token_expired()
    new_auth,     \* the BearerAuth built by _create_auth, not yet assigned
    refreshes,    \* calls of self.refresh_token() in this request()
    mine,         \* the response this worker's latest refresh obtained
    grants,       \* history: the grants of the refresh_token() call that is
                  \* running or has just ended, each with the response
                  \* it got and the exception it raised
    error,        \* the exception request() ended with
    sends,        \* calls of super().request() in this request()
    carried,      \* the token the latest send carried
    status,       \* the status of the latest response
    expiry,       \* the latest call of the function is_token_expired
    hop,          \* the request in flight: where it goes, where it was
                  \* redirected from, and its Authorization header
    remote,       \* the content endpoint: the product's length and whether
                  \* the Range header is honoured
    disk,         \* the destination path: whether it exists, and its bytes
    dl,           \* the download call: its arguments, the locals of
                  \* _download_url and where it stands
    BLAKE3_AVAILABLE, \* whether the import of blake3 succeeded
    pool,         \* download_all and the Downloader's dl_executor
    parsed,       \* the latest call of parse_datetime_to_components
    odata,        \* a call of the OData SearchBase.get: the generator's
                  \* locals and the pages of the endpoint
    opensearch    \* a call of the OpenSearch ProductSearch.get: the
                  \* generator's locals and the pages of the endpoint

\* what the session's steps leave alone
dlVars == << remote, disk, dl, BLAKE3_AVAILABLE >>

searchVars == << odata, opensearch >>

outside == << expiry, hop, remote, disk, dl, BLAKE3_AVAILABLE, pool, parsed,
             odata, opensearch >>

sessionVars == << token_info, token_lock, auth, clock, fetched_at, expires_from >>
workerVars == << pc, rd_acquired, expired, new_auth, refreshes, mine, grants,
                 error, sends, carried, status >>

sessionAll == << token_info, token_lock, auth, clock, fetched_at, expires_from,
                 pc, rd_acquired, expired, new_auth, refreshes, mine, grants,
                 error, sends, carried, status >>

Hosts == AUTH_DOMAINS \cup { IDENTITY_HOST, "example.org" }

\* seconds: small values, and values around the default buffer
Seconds == (0 .. MaxTime) \cup { DEFAULT_BUFFER + d : d \in (0 - 1) .. MaxTime }

NotCalled ==
    [ called |-> FALSE, defaulted |-> FALSE, now |-> 0, acquired_time |-> 0,
      expires_time |-> 0, buffer |-> 0, result |-> FALSE ]

\* a request of the session to host h: BearerAuth has set the header
NewRequest(h) ==
    [ redirects |-> 0, from |-> h, to |-> h, before |-> TRUE, after |-> TRUE ]

FnAtRest ==
    /\ expiry = NotCalled
    /\ hop = NewRequest("catalogue.dataspace.copernicus.eu")

\* the product's bytes: byte i of the remote content is i; a byte that is
\* not of the product is 0
Content(length) == [ i \in 1 .. length |-> i ]

Stale(length) == [ i \in 1 .. length |-> 0 ]

\* s from its element number first on (SubSeq that is empty past the end)
From(s, first) == [ i \in 1 .. (Len(s) - first + 1) |-> s[first + i - 1] ]

Min(a, b) == IF a <= b THEN a ELSE b

NoFile == [ exists |-> FALSE, bytes |-> << >> ]

NoResponse == [ status |-> 0, content_length |-> 0, body |-> << >> ]

\* a product descriptor of the primary shape, as the OData search returns
\* it: Id, Name, ContentLength and the list Checksum of Algorithm/Value
\* entries
Primary(checksums) == [ Id |-> 1, Name |-> 1, Checksum |-> checksums ]

\* a product descriptor of the alternate shape, as the OpenSearch search
\* returns it: id and properties.title
Alternate == [ id |-> 1, properties |-> [ title |-> 1 ] ]

\* the headers argument of self.session.get: None, or {"Range": "bytes=n-"}
None == << >>

RangeFrom(n) == << n >>

\* no call of download is running
NotDownloading ==
    [ pc |-> "idle", mode |-> "", downloaded_bytes |-> 0,
      response |-> NoResponse, reads |-> 0, error |-> "", before |-> NoFile,
      product |-> Primary(<< >>), check |-> FALSE, headers |-> None, length |-> 0,
      requests |-> << >>, opens |-> 0, warned |-> FALSE, interrupted |-> FALSE ]

DlAtRest ==
    /\ remote = [ length |-> 1, honours_range |-> TRUE ]
    /\ disk = NoFile
    /\ dl = NotDownloading
    /\ BLAKE3_AVAILABLE = TRUE

\* the Downloader's pool before download_all is called: no task was
\* submitted, the executor is not shut down
NoPool(max_workers, defaulted) ==
    [ max_workers |-> max_workers, defaulted |-> defaulted, shutdown |-> FALSE,
      pc |-> "idle", calls |-> 0, batch |-> 0, submitted |-> 0,
      tasks |-> << >>, result |-> << >>, error |-> "" ]

PoolAtRest == pool = NoPool(1, FALSE)

\* parse_datetime_to_components was not called
NotParsed == [ called |-> FALSE, value |-> [ kind |-> "list", parts |-> << >> ],
               result |-> << >>, error |-> "" ]

ParseAtRest == parsed = NotParsed

\* an argument that is None, or given
NotGiven == << >>

Given(n) == << n >>

\* SearchBase.get was not called: the endpoint's pages are the numbers of
\* products of each, every page but the last with an @odata.nextLink
NoSearch ==
    [ pc |-> "idle", limit |-> NotGiven, top |-> NotGiven, pages |-> << 0 >>,
      next_link |-> 0, page_results |-> 0, requests |-> 0, returned |-> 0 ]

\* ProductSearch.get (OpenSearch) was not called: the endpoint's pages are
\* a chain, each with its number of features and its links: one with rel
\* "next" (its href the following page), only others, or none at all
NoOpenSearch ==
    [ pc |-> "idle", limit |-> NotGiven, params |-> NotGiven,
      pages |-> << [ features |-> 0, links |-> "none" ] >>,
      url |-> 1, next_link |-> 0, more_results |-> FALSE, page_results |-> 0,
      count |-> 0, requests |-> 0, ended |-> FALSE, after_last |-> 0 ]

SearchAtRest ==
    /\ odata = NoSearch
    /\ opensearch = NoOpenSearch

\* the token responses issued so far: response n carries access_token n
issued == token_info["access_token"]

NotRead == [ id |-> 0, value |-> 0 ]

\* Credentials.__init__ and CDSEAuthSession.__init__ have run: the token of
\* the first password grant, response 1, is stored and attached at clock 0.
InitSession(responses) ==
    /\ token_info \in { response_to_token_info(r, 0) :
                          r \in { r \in responses : GrantError(r).type = "none" } }
    /\ token_lock = 0
    /\ auth = 1
    /\ clock = 0
    /\ fetched_at = 0
    /\ expires_from = 1
    /\ pc = [ w \in Workers |-> "idle" ]
    /\ rd_acquired = [ w \in Workers |-> NotRead ]
    /\ expired = [ w \in Workers |-> FALSE ]
    /\ new_auth = [ w \in Workers |-> 0 ]
    /\ refreshes = [ w \in Workers |-> 0 ]
    /\ mine = [ w \in Workers |-> 0 ]
    /\ grants = [ w \in Workers |-> << >> ]
    /\ error = [ w \in Workers |-> NoError ]
    /\ sends = [ w \in Workers |-> 0 ]
    /\ carried = [ w \in Workers |-> 0 ]
    /\ status = [ w \in Workers |-> 0 ]

\* time passes
Tick ==
    /\ clock + ClockStep <= MaxTicks * ClockStep
    /\ clock' = clock + ClockStep
    /\ UNCHANGED << token_info, token_lock, auth, fetched_at, expires_from >>
    /\ UNCHANGED workerVars
    /\ UNCHANGED outside

\* request() ends with exception e
Fails(w, e) ==
    /\ pc' = [ pc EXCEPT ![w] = "failed" ]
    /\ error' = [ error EXCEPT ![w] = e ]

\* request(), entered: self._creds.is_token_expired() evaluates its first
\* argument, self.token_info["acquired_time"]
Request(w) ==
    /\ pc[w] = "idle"
    /\ rd_acquired' = [ rd_acquired EXCEPT ![w] =
                          [ id |-> issued, value |-> token_info["acquired_time"] ] ]
    /\ pc' = [ pc EXCEPT ![w] = "is_token_expired" ]
    /\ UNCHANGED sessionVars
    /\ UNCHANGED << expired, new_auth, refreshes, mine, grants, error, sends, carried, status >>
    /\ UNCHANGED outside

\* ... then its second argument, self.token_info["expires_in"], and calls
\* is_token_expired with the default buffer
IsTokenExpired(w) ==
    /\ pc[w] = "is_token_expired"
    /\ IF "expires_in" \notin DOMAIN token_info
       THEN /\ Fails(w, Raise("KeyError"))
            /\ UNCHANGED expired
       ELSE /\ expired' = [ expired EXCEPT ![w] =
                   is_token_expired(clock, rd_acquired[w].value,
                                    token_info["expires_in"], DEFAULT_BUFFER) ]
            /\ pc' = [ pc EXCEPT ![w] = IF expired'[w] THEN "refresh_token" ELSE "send" ]
            /\ UNCHANGED error
    /\ rd_acquired' = [ rd_acquired EXCEPT ![w] = NotRead ]
    /\ UNCHANGED sessionVars
    /\ UNCHANGED << new_auth, refreshes, mine, grants, sends, carried, status >>
    /\ UNCHANGED outside

\* CDSEAuthSession.refresh_token -> Credentials.refresh_token: the lock is
\* taken and self.token_info["refresh_token"] is read under it; a KeyError
\* leaves the with block, which releases the lock
AcquireLock(w) ==
    /\ pc[w] = "refresh_token"
    /\ token_lock = 0
    /\ refreshes' = [ refreshes EXCEPT ![w] = @ + 1 ]
    /\ grants' = [ grants EXCEPT ![w] = << >> ]
    /\ IF "refresh_token" \notin DOMAIN token_info
       THEN /\ Fails(w, Raise("KeyError"))
            /\ UNCHANGED token_lock
       ELSE /\ token_lock' = w
            /\ pc' = [ pc EXCEPT ![w] = "refresh_grant" ]
            /\ UNCHANGED error
    /\ UNCHANGED << token_info, auth, clock, fetched_at, expires_from >>
    /\ UNCHANGED << rd_acquired, expired, new_auth, mine, sends, carried, status >>
    /\ UNCHANGED outside

\* self.token_info.update(new_token_info)
update(old, new_token_info) == DictUpdate(old, new_token_info)

\* Credentials.refresh_token, after refresh_token_info_or_reauth returned:
\* the token_info is updated and the with block releases the lock
StoreToken(w, response) ==
    /\ token_info' = update(token_info, response_to_token_info(response, clock))
    /\ fetched_at' = clock
    /\ expires_from' = IF "expires_in" \in DOMAIN response.body
                       THEN issued + 1 ELSE expires_from
    /\ mine' = [ mine EXCEPT ![w] = issued + 1 ]
    /\ token_lock' = 0
    /\ pc' = [ pc EXCEPT ![w] = "create_auth" ]
    /\ UNCHANGED error

\* refresh_token_info_or_reauth: whether the except clause runs for the
\* exception e of refresh_token_info (except Exception)
Handles(e) == e.type # "none"

\* refresh_token_info_or_reauth, the try: refresh_token_info(refresh_token)
RefreshGrant(w, response) ==
    /\ pc[w] = "refresh_grant"
    /\ grants' = [ grants EXCEPT ![w] =
                     Append(@, [ grant |-> "refresh_token", response |-> response,
                                 error |-> GrantError(response) ]) ]
    /\ IF Handles(GrantError(response))
       THEN /\ pc' = [ pc EXCEPT ![w] = "password_grant" ]
            /\ UNCHANGED << token_info, fetched_at, expires_from, mine, token_lock, error >>
       ELSE /\ GrantError(response).type = "none"
            /\ issued < MaxTokens
            /\ StoreToken(w, response)
    /\ UNCHANGED << auth, clock >>
    /\ UNCHANGED << rd_acquired, expired, new_auth, refreshes, sends, carried, status >>
    /\ UNCHANGED outside

\* (mutant) the refresh grant's exception is raised again after the fallback
Reraised_first(rg, pg) == rg

\* refresh_token_info_or_reauth: the exception that leaves the function when
\* the refresh grant raised rg and get_token_info raised pg
Reraised(rg, pg) == pg

\* the step as the mutant of C27 has it: an exception of get_token_info
\* leaves the lock held
PasswordGrant_keeps_lock(w, response) ==
    /\ pc[w] = "password_grant"
    /\ grants' = [ grants EXCEPT ![w] =
                     Append(@, [ grant |-> "password", response |-> response,
                                 error |-> GrantError(response) ]) ]
    /\ IF GrantError(response).type = "none"
       THEN /\ issued < MaxTokens
            /\ StoreToken(w, response)
       ELSE /\ Fails(w, Reraised(grants[w][1].error, GrantError(response)))
            /\ UNCHANGED << token_lock, token_info, fetched_at, expires_from, mine >>
    /\ UNCHANGED << auth, clock >>
    /\ UNCHANGED << rd_acquired, expired, new_auth, refreshes, sends, carried, status >>
    /\ UNCHANGED outside

\* refresh_token_info_or_reauth, except Exception: get_token_info(username,
\* password); its exception leaves the with block, which releases the lock
PasswordGrant(w, response) ==
    /\ pc[w] = "password_grant"
    /\ grants' = [ grants EXCEPT ![w] =
                     Append(@, [ grant |-> "password", response |-> response,
                                 error |-> GrantError(response) ]) ]
    /\ IF GrantError(response).type = "none"
       THEN /\ issued < MaxTokens
            /\ StoreToken(w, response)
       ELSE /\ Fails(w, Reraised(grants[w][1].error, GrantError(response)))
            /\ token_lock' = 0
            /\ UNCHANGED << token_info, fetched_at, expires_from, mine >>
    /\ UNCHANGED << auth, clock >>
    /\ UNCHANGED << rd_acquired, expired, new_auth, refreshes, sends, carried, status >>
    /\ UNCHANGED outside

\* self._create_auth(): BearerAuth(self._creds.token_info["access_token"])
CreateAuth(w) ==
    /\ pc[w] = "create_auth"
    /\ new_auth' = [ new_auth EXCEPT ![w] = token_info["access_token"] ]
    /\ grants' = [ grants EXCEPT ![w] = << >> ]
    /\ pc' = [ pc EXCEPT ![w] = "set_auth" ]
    /\ UNCHANGED sessionVars
    /\ UNCHANGED << rd_acquired, expired, refreshes, mine, error, sends, carried, status >>
    /\ UNCHANGED outside

\* self.auth = ...
SetAuth(w) ==
    /\ pc[w] = "set_auth"
    /\ auth' = new_auth[w]
    /\ new_auth' = [ new_auth EXCEPT ![w] = 0 ]
    /\ pc' = [ pc EXCEPT ![w] = "send" ]
    /\ UNCHANGED << token_info, token_lock, clock, fetched_at, expires_from >>
    /\ UNCHANGED << rd_acquired, expired, refreshes, mine, grants, error, sends, carried, status >>
    /\ UNCHANGED outside

\* the statuses a server answers the caller's request with
Statuses == { 200, 401, 503 }

\* the retry as the mutant of C26 has it: every 401 is retried
Retries_every_401(n, response_status) == response_status = 401

\* request(): whether the response to send number n leads to refresh_token()
\* and one more send
Retries(n, response_status) == response_status = 401 /\ n = 1

\* response = super().request(*args, **kwargs): the request is prepared with
\* self.auth and sent
Send(w, response_status) ==
    /\ pc[w] = "send"
    /\ sends' = [ sends EXCEPT ![w] = @ + 1 ]
    /\ carried' = [ carried EXCEPT ![w] = auth ]
    /\ status' = [ status EXCEPT ![w] = response_status ]
    /\ pc' = [ pc EXCEPT ![w] =
                 IF Retries(sends'[w], response_status) THEN "refresh_token" ELSE "done" ]
    /\ UNCHANGED sessionVars
    /\ UNCHANGED << rd_acquired, expired, new_auth, refreshes, mine, grants, error >>
    /\ UNCHANGED outside

\* a connection error or timeout of super().request propagates
SendError(w) ==
    /\ pc[w] = "send"
    /\ Fails(w, Raise("ConnectionError"))
    /\ UNCHANGED sessionVars
    /\ UNCHANGED << rd_acquired, expired, new_auth, refreshes, mine, grants,
                    sends, carried, status >>
    /\ UNCHANGED outside

\* request() has returned or raised; the worker is free for its next call
Return(w) ==
    /\ pc[w] \in { "done", "failed" }
    /\ pc' = [ pc EXCEPT ![w] = "idle" ]
    /\ expired' = [ expired EXCEPT ![w] = FALSE ]
    /\ refreshes' = [ refreshes EXCEPT ![w] = 0 ]
    /\ mine' = [ mine EXCEPT ![w] = 0 ]
    /\ grants' = [ grants EXCEPT ![w] = << >> ]
    /\ error' = [ error EXCEPT ![w] = NoError ]
    /\ sends' = [ sends EXCEPT ![w] = 0 ]
    /\ carried' = [ carried EXCEPT ![w] = 0 ]
    /\ status' = [ status EXCEPT ![w] = 0 ]
    /\ UNCHANGED sessionVars
    /\ UNCHANGED << rd_acquired, new_auth >>
    /\ UNCHANGED outside

vars == << token_info, token_lock, auth, clock, fetched_at, expires_from,
           pc, rd_acquired, expired, new_auth, refreshes, mine, grants,
           error, sends, carried, status, expiry, hop, remote, disk, dl,
           BLAKE3_AVAILABLE, pool, parsed, odata, opensearch >>

(***************************************************************************)
(* Spec: NumWorkers threads share the session; the identity provider is    *)
(* well-behaved.                                                           *)
(***************************************************************************)
Init ==
    /\ InitSession(SessionResponses(1))
    /\ FnAtRest /\ DlAtRest /\ PoolAtRest /\ ParseAtRest /\ SearchAtRest

Next ==
    \/ Tick
    \/ \E w \in Workers : Request(w)
    \/ \E w \in Workers : IsTokenExpired(w)
    \/ \E w \in Workers : AcquireLock(w)
    \/ \E w \in Workers : \E r \in SessionResponses(issued + 1) : RefreshGrant(w, r)
    \/ \E w \in Workers : \E r \in SessionResponses(issued + 1) : PasswordGrant(w, r)
    \/ \E w \in Workers : CreateAuth(w)
    \/ \E w \in Workers : SetAuth(w)
    \/ \E w \in Workers : \E s \in Statuses : Send(w, s)
    \/ \E w \in Workers : SendError(w)
    \/ \E w \in Workers : Return(w)

Spec == Init /\ [][Next]_vars

(***************************************************************************)
(* SpecStore: one caller, and an identity provider that answers with every *)
(* response shape.                                                         *)
(***************************************************************************)
Caller == CHOOSE w \in Workers : \A v \in Workers : w <= v

InitStore ==
    /\ InitSession(TokenResponses(1))
    /\ FnAtRest /\ DlAtRest /\ PoolAtRest /\ ParseAtRest /\ SearchAtRest

NextStore ==
    \/ Tick
    \/ Request(Caller)
    \/ IsTokenExpired(Caller)
    \/ AcquireLock(Caller)
    \/ \E r \in TokenResponses(issued + 1) : RefreshGrant(Caller, r)
    \/ \E r \in TokenResponses(issued + 1) : PasswordGrant(Caller, r)
    \/ CreateAuth(Caller)
    \/ SetAuth(Caller)
    \/ \E s \in Statuses : Send(Caller, s)
    \/ SendError(Caller)
    \/ Return(Caller)

SpecStore == InitStore /\ [][NextStore]_vars

(***************************************************************************)
(* Properties of request(), checked under Spec.                            *)
(***************************************************************************)

\* C1: a 401 to the first send is followed by exactly one refresh and exactly
\* one resend, the resend carries the token that refresh obtained (or a
\* later one), and the second response is returned whatever its status: there
\* is no third send.
C1_OneRefreshOneResend ==
    \A w \in Workers :
        /\ sends[w] <= 2
        /\ (pc[w] = "done" /\ sends[w] = 1) => status[w] # 401
        /\ sends[w] = 2 =>
              /\ refreshes[w] = 1 + (IF expired[w] THEN 1 ELSE 0)
              /\ pc[w] = "done"
              /\ carried[w] >= mine[w]

\* C2: when is_token_expired() is true at the pre-send check, exactly one
\* refresh runs before the first send, and the first send carries the token
\* that refresh obtained (or a later one).
C2_ExpiredRefreshesOnceBeforeSend ==
    \A w \in Workers :
        /\ (expired[w] /\ pc[w] = "send" /\ sends[w] = 0) => refreshes[w] = 1
        /\ (expired[w] /\ sends[w] = 1 /\ pc[w] \in { "done", "refresh_token" }) =>
              /\ refreshes[w] = 1
              /\ carried[w] >= mine[w]

\* the workers inside the with self.token_lock block
InRefresh == { w \in Workers : pc[w] \in { "refresh_grant", "password_grant" } }

\* C4: refreshes never overlap, and the two fields a worker reads in
\* Credentials.is_token_expired are fields of one token response.
C4_SerializedByLock ==
    /\ [](Cardinality(InRefresh) <= 1)
    /\ [][ \A w \in Workers :
             (pc[w] = "is_token_expired" /\ pc'[w] \in { "refresh_token", "send" })
                 => rd_acquired[w].id = expires_from ]_vars

\* C9: the stored acquired_time is the local clock read when the stored
\* token was fetched, whatever the response body holds.
C9_AcquiredTimeIsLocalClock ==
    token_info["acquired_time"] = fetched_at

\* a refresh at a later clock has just stored a token whose response body
\* brought an acquired_time of its own
C9_Witness ==
    \E w \in Workers :
        /\ pc[w] = "create_auth"
        /\ "acquired_time" \in DOMAIN grants[w][Len(grants[w])].response.body
        /\ clock > 0
        /\ token_info["access_token"] = mine[w]
        /\ token_info["acquired_time"] = clock

(***************************************************************************)
(* Properties of the token store, checked under SpecStore.                 *)
(***************************************************************************)

\* no worker is inside request()
Quiet == \A w \in Workers : pc[w] \in { "idle", "done", "failed" }

\* C25: once every worker's request has ended, the token of session.auth is
\* the access_token of the token store.
C25_AuthIsStoredToken ==
    Quiet => auth = token_info["access_token"]

\* C26: one request() sends at most twice and refreshes at most twice, and
\* a refresh that fails after a 401 ends the call with no second send.
C26_AtMostTwoSendsTwoRefreshes ==
    \A w \in Workers :
        /\ sends[w] <= 2
        /\ refreshes[w] <= 2
        /\ sends[w] = 2 => refreshes[w] >= 1
        /\ ( pc[w] = "failed" /\ Len(grants[w]) = 2 /\ status[w] = 401 ) =>
              /\ sends[w] = 1
              /\ error[w] = grants[w][2].error

\* a request refreshed before its send, answered 401, refreshed again and
\* resent
C26_Witness ==
    \E w \in Workers :
        /\ pc[w] = "done"
        /\ expired[w]
        /\ sends[w] = 2
        /\ refreshes[w] = 2

\* C27: the lock is held only by a worker that is inside the refresh, and
\* the step in which a refresh fails frees the lock and leaves the stored
\* token as it was.
C27_FailedRefreshFreesLock ==
    /\ []( token_lock # 0 => pc[token_lock] \in { "refresh_grant", "password_grant" } )
    /\ []( \A w \in Workers :
             ( pc[w] = "refresh_token" /\ token_lock = 0 ) => ENABLED AcquireLock(w) )
    /\ [][ \A w \in Workers :
             ( pc[w] = "password_grant" /\ pc'[w] = "failed" ) =>
                 /\ token_lock' = 0
                 /\ token_info' = token_info ]_vars

\* after one worker's refresh failed, another worker holds the lock
C27_Witness ==
    \E w \in Workers, v \in Workers :
        /\ w # v
        /\ pc[w] = "failed"
        /\ Len(grants[w]) = 2
        /\ token_lock = v
        /\ pc[v] = "refresh_grant"

\* C5: a step that changes token_info replaces all four fields by those of
\* one new token response, and a refresh that raises leaves it unchanged.
C5_NeverPartiallyUpdated ==
    [][ /\ token_info' # token_info =>
              /\ TokenKeys \subseteq DOMAIN token_info'
              /\ token_info'["access_token"] = issued + 1
              /\ token_info'["refresh_token"] = issued + 1
              /\ expires_from' = issued + 1
              /\ token_info'["acquired_time"] = clock
        /\ pc'[Caller] = "failed" => token_info' = token_info ]_vars

\* C6: the refresh grant comes first; the password grant runs exactly when
\* the refresh grant failed, and once; when both fail the caller gets the
\* password grant's exception.
C6_RefreshThenReauth ==
    \A w \in Workers :
        LET g == grants[w] IN
        /\ Len(g) <= 2
        /\ Len(g) >= 1 => g[1].grant = "refresh_token"
        /\ Len(g) = 2 => g[2].grant = "password" /\ g[1].error.type # "none"
        /\ (Len(g) = 1 /\ g[1].error.type # "none") => pc[w] = "password_grant"
        /\ (Len(g) = 1 /\ g[1].error.type = "none") => pc[w] = "create_auth"
        /\ (Len(g) = 2 /\ g[2].error.type # "none") =>
               pc[w] = "failed" /\ error[w] = g[2].error
        /\ (Len(g) = 2 /\ g[2].error.type = "none") => pc[w] = "create_auth"

\* both grants failed, each with its own exception
C6_Witness ==
    /\ pc[Caller] = "failed"
    /\ Len(grants[Caller]) = 2
    /\ grants[Caller][1].error.type = "ConnectionError"
    /\ grants[Caller][2].error.type = "APIAuthException"
    /\ error[Caller] = grants[Caller][2].error

\* C8: a token request answered with a non-2xx status raises
\* APIAuthException whatever the body; the message holds the body's error
\* and error_description when present.
C8_AuthErrorForEveryBody ==
    \A w \in Workers : \A i \in 1 .. Len(grants[w]) :
        LET g == grants[w][i] IN
        (g.response.net /\ IsHTTPError(g.response.status)) =>
            /\ g.error.type = "APIAuthException"
            /\ "error" \in DOMAIN g.response.body =>
                   g.error.error = g.response.body["error"]
            /\ "error_description" \in DOMAIN g.response.body =>
                   g.error.detail = g.response.body["error_description"]

(***************************************************************************)
(* The module's functions called on their own, and the redirects of one    *)
(* request.                                                                *)
(***************************************************************************)
\* is_token_expired(acquired_time, expires_time, buffer) at time.time() = now
CallIsTokenExpired(now, acquired_time, expires_time, buffer) ==
    /\ expiry' = [ called |-> TRUE, defaulted |-> FALSE, now |-> now,
                   acquired_time |-> acquired_time, expires_time |-> expires_time,
                   buffer |-> buffer,
                   result |-> is_token_expired(now, acquired_time, expires_time, buffer) ]
    /\ UNCHANGED hop
    /\ UNCHANGED << sessionAll, dlVars, pool, parsed, searchVars >>

\* is_token_expired(acquired_time, expires_time): the buffer is defaulted
CallIsTokenExpiredDefault(now, acquired_time, expires_time) ==
    /\ expiry' = [ called |-> TRUE, defaulted |-> TRUE, now |-> now,
                   acquired_time |-> acquired_time, expires_time |-> expires_time,
                   buffer |-> DEFAULT_BUFFER,
                   result |-> is_token_expired(now, acquired_time, expires_time,
                                               DEFAULT_BUFFER) ]
    /\ UNCHANGED hop
    /\ UNCHANGED << sessionAll, dlVars, pool, parsed, searchVars >>

\* session.request(url on host h): a new request, with the header set
SendTo(h) ==
    /\ hop' = NewRequest(h)
    /\ UNCHANGED expiry
    /\ UNCHANGED << sessionAll, dlVars, pool, parsed, searchVars >>

\* the response redirects to host h: Session.resolve_redirects copies the
\* request, headers included, and calls rebuild_auth(prepared_request, resp)
Redirect(h) ==
    /\ hop.redirects < MaxHops
    /\ hop' = [ redirects |-> hop.redirects + 1, from |-> hop.to, to |-> h,
                before |-> hop.after,
                after |-> rebuild_auth(hop.after, hop.to, h) ]
    /\ UNCHANGED expiry
    /\ UNCHANGED << sessionAll, dlVars, pool, parsed, searchVars >>

InitFn ==
    /\ InitSession({ [ net |-> TRUE, status |-> 200, json |-> TRUE,
                       body |-> [ access_token |-> 1, refresh_token |-> 1,
                                  expires_in |-> DEFAULT_BUFFER + ClockStep ] ] })
    /\ FnAtRest
    /\ DlAtRest
    /\ PoolAtRest
    /\ ParseAtRest
    /\ SearchAtRest

(***************************************************************************)
(* SpecExpiry: the function is_token_expired called on its own.            *)
(***************************************************************************)
NextExpiry ==
    \/ \E now \in 0 .. MaxTime, a \in 0 .. MaxTime, e \in Seconds, b \in Seconds :
          CallIsTokenExpired(now, a, e, b)
    \/ \E now \in 0 .. MaxTime, a \in 0 .. MaxTime, e \in Seconds :
          CallIsTokenExpiredDefault(now, a, e)

SpecExpiry == InitFn /\ [][NextExpiry]_vars

(***************************************************************************)
(* SpecRedirect: requests of the session and the redirects they follow.    *)
(***************************************************************************)
NextRedirect ==
    \/ \E h \in Hosts : SendTo(h)
    \/ \E h \in Hosts : Redirect(h)

SpecRedirect == InitFn /\ [][NextRedirect]_vars

\* C3: a redirect keeps the Authorization header only when the host
\* redirected from and the host redirected to are both in AUTH_DOMAINS;
\* every other redirect strips it, one within the same host included.
C3_StrippedUnlessBothTrusted ==
    (hop.redirects > 0 /\ hop.before) =>
        (hop.after <=> (hop.from \in AUTH_DOMAINS /\ hop.to \in AUTH_DOMAINS))

\* C7: is_token_expired is true exactly when the token has no more than the
\* buffer left, and the buffer is 60 when the caller gives none.
C7_ExpiredIffWithinBuffer ==
    expiry.called =>
        /\ expiry.result <=>
              (expiry.acquired_time + expiry.expires_time - expiry.now <= expiry.buffer)
        /\ expiry.defaulted => expiry.buffer = 60

\* the boundary: exactly the buffer is left, and the token counts as expired
C7_Witness ==
    /\ expiry.called
    /\ expiry.defaulted
    /\ expiry.now - expiry.acquired_time + expiry.buffer = expiry.expires_time
    /\ expiry.result

(***************************************************************************)
(* SpecDownload: Downloader._download_url, called again and again on one   *)
(* destination path.                                                       *)
(***************************************************************************)

\* what the content endpoint answers to a GET with Range: bytes=first- (or
\* with no Range header): an endpoint that honours Range serves the rest of
\* the content as 206 Partial Content and answers 416 Range Not Satisfiable
\* when first is not below the length; one that does not serves it all
Served(ranged, first) ==
    IF ranged /\ remote.honours_range
    THEN IF first < remote.length
         THEN [ status |-> 206, content_length |-> remote.length - first,
                body |-> From(Content(remote.length), first + 1) ]
         ELSE [ status |-> 416, content_length |-> 0, body |-> << >> ]
    ELSE [ status |-> 200, content_length |-> remote.length,
           body |-> Content(remote.length) ]

\* the answers of an endpoint that does not serve the content
Refused == { [ status |-> s, content_length |-> 0, body |-> << >> ] : s \in { 404, 503 } }

\* the hex digests of the two algorithms _check_hash supports, as folds over
\* the file's bytes; hexdigest() is in lower case
Fold(bytes, seed, factor) ==
    LET RECURSIVE fold(_, _)
        fold(rest, h) == IF rest = << >> THEN h
                         ELSE fold(Tail(rest), (h * factor + Head(rest)) % HashMod)
    IN fold(bytes, seed)

hexdigest(algorithm, bytes) ==
    [ hex |-> IF algorithm = "BLAKE3" THEN Fold(bytes, 2, 3) ELSE Fold(bytes, 1, 2),
      upper |-> FALSE ]

\* str.lower() of a hex digest
lower(value) == [ value EXCEPT !.upper = FALSE ]

\* the Value of a Checksum entry: a hex digest in lower or in upper case
Values == [ hex : 0 .. HashMod - 1, upper : BOOLEAN ]

\* the Checksum lists of the descriptors: none, one or two entries
Checksums ==
    { << >> }
    \cup { << [ Algorithm |-> a, Value |-> v ] >> :
             a \in { "MD5", "BLAKE3", "SHA256" }, v \in Values }
    \cup { << [ Algorithm |-> "MD5", Value |-> v ],
              [ Algorithm |-> "BLAKE3", Value |-> w ] >> :
             v \in Values, w \in { x \in Values : ~x.upper } }

\* the descriptors download is called with
Products == { Primary(c) : c \in Checksums } \cup { Alternate }

\* checksums_info[algorithm]: the dict comprehension keeps the last entry
\* of an algorithm
ChecksumOf(checksums, algorithm) ==
    LET at == { i \in 1 .. Len(checksums) : checksums[i].Algorithm = algorithm }
    IN checksums[CHOOSE i \in at : \A j \in at : j <= i]

Algorithms(checksums) == { checksums[i].Algorithm : i \in 1 .. Len(checksums) }

\* the choice as the mutant of C23 has it: MD5 whenever the descriptor has it
Hasher_md5_first(checksums, blake3_available) ==
    IF "MD5" \in Algorithms(checksums) THEN "MD5"
    ELSE IF "BLAKE3" \in Algorithms(checksums) /\ blake3_available THEN "BLAKE3"
    ELSE ""

\* the algorithm _check_hash picks: BLAKE3 when the descriptor has it and
\* the import succeeded, else MD5 when the descriptor has it, else none
Hasher(checksums, blake3_available) ==
    IF "BLAKE3" \in Algorithms(checksums) /\ blake3_available THEN "BLAKE3"
    ELSE IF "MD5" \in Algorithms(checksums) THEN "MD5"
    ELSE ""

\* _check_hash as the mutant of C14 has it: every file is found valid
check_hash_accepting(bytes, checksums, blake3_available) ==
    [ raised |-> "", valid |-> TRUE ]

\* _check_hash: ValueError when there is no checksum or none of a supported
\* algorithm, else whether the file's digest is the descriptor's value, both
\* in lower case
check_hash(bytes, checksums, blake3_available) ==
    IF Algorithms(checksums) = { } \/ Hasher(checksums, blake3_available) = ""
    THEN [ raised |-> "ValueError", valid |-> FALSE ]
    ELSE LET hasher == Hasher(checksums, blake3_available) IN
         [ raised |-> "",
           valid |-> lower(hexdigest(hasher, bytes))
                        = lower(ChecksumOf(checksums, hasher).Value) ]

\* download, entered: the id and the name are read from the descriptor, in
\* its primary or in its alternate shape
Download(product, check) ==
    /\ dl.pc = "idle"
    /\ dl' = [ dl EXCEPT !.pc = "url", !.product = product, !.check = check ]
    /\ UNCHANGED << remote, disk >>
    /\ UNCHANGED << sessionAll, expiry, hop, BLAKE3_AVAILABLE, pool, parsed, searchVars >>

\* the headers of the content request as the mutant of C13 has them: the
\* offset is sent whether the file exists or not
Headers_always_ranged(exists, size) == RangeFrom(size)

\* the headers of the content request: a Range from the file's size on when
\* the file exists, none when it does not
Headers(exists, size) == IF exists THEN RangeFrom(size) ELSE None

\* _download_url, entered: path.exists() decides the mode, the resume
\* offset and the Range header
DownloadUrl ==
    /\ dl.pc = "url"
    /\ dl' = [ dl EXCEPT
                 !.pc = "get",
                 !.mode = IF disk.exists THEN "ab" ELSE "wb",
                 !.downloaded_bytes = IF disk.exists THEN Len(disk.bytes) ELSE 0,
                 !.headers = Headers(disk.exists, Len(disk.bytes)),
                 !.before = disk ]
    /\ UNCHANGED << remote, disk >>
    /\ UNCHANGED << sessionAll, expiry, hop, BLAKE3_AVAILABLE, pool, parsed, searchVars >>

\* _download_url, the comparison of downloaded_bytes with the response's
\* Content-Length: "skip" (already downloaded), "restart" (the file is
\* larger than expected) or "stream"
Plan(downloaded_bytes, length) ==
    IF downloaded_bytes = length THEN "skip"
    ELSE IF downloaded_bytes > length THEN "restart"
    ELSE "stream"

\* raise_for_status as the mutant of C19 has it: only a server error raises
IsHTTPError_server(status_code) == status_code >= 500 /\ status_code < 600

\* response.raise_for_status() of the content response
RaiseForStatus(status_code) == IsHTTPError(status_code)

\* length = int(response.headers["Content-Length"])
Length(response) == response.content_length

\* response = self.session.get(url, stream=True, headers=headers);
\* raise_for_status(); the Content-Length is read and compared; a file that
\* is larger is unlinked
Get(response) ==
    /\ dl.pc = "get"
    /\ IF RaiseForStatus(response.status)
       THEN /\ dl' = [ dl EXCEPT !.pc = "failed", !.response = response,
                                 !.error = "HTTPError", !.requests = Append(@, dl.headers) ]
            /\ UNCHANGED disk
       ELSE LET plan == Plan(dl.downloaded_bytes, Length(response)) IN
            /\ dl' = [ dl EXCEPT
                         !.response = response,
                         !.length = Length(response),
                         !.requests = Append(@, dl.headers),
                         !.pc = IF plan = "skip" THEN "done" ELSE "open",
                         !.mode = IF plan = "restart" THEN "wb" ELSE @,
                         !.downloaded_bytes = IF plan = "restart" THEN 0 ELSE @,
                         !.headers = IF plan = "restart" THEN None ELSE @ ]
            /\ disk' = IF plan = "restart" THEN NoFile ELSE disk
    /\ UNCHANGED remote
    /\ UNCHANGED << sessionAll, expiry, hop, BLAKE3_AVAILABLE, pool, parsed, searchVars >>

\* self.session.get raises: a connection error or a timeout
GetError ==
    /\ dl.pc = "get"
    /\ dl' = [ dl EXCEPT !.pc = "failed", !.error = "ConnectionError",
                         !.requests = Append(@, dl.headers) ]
    /\ UNCHANGED << remote, disk >>
    /\ UNCHANGED << sessionAll, expiry, hop, BLAKE3_AVAILABLE, pool, parsed, searchVars >>

\* open(path, mode): "wb" creates or truncates, "ab" creates or keeps
Open ==
    /\ dl.pc = "open"
    /\ disk' = [ exists |-> TRUE,
                 bytes |-> IF dl.mode = "wb" THEN << >> ELSE disk.bytes ]
    /\ dl' = [ dl EXCEPT !.pc = "stream", !.opens = @ + 1 ]
    /\ UNCHANGED remote
    /\ UNCHANGED << sessionAll, expiry, hop, BLAKE3_AVAILABLE, pool, parsed, searchVars >>

\* one round of the loop over response.iter_content: a chunk is read from
\* the body and written to the file
WriteChunk ==
    /\ dl.pc = "stream"
    /\ Len(dl.response.body) > 0
    /\ LET n == Min(ChunkBytes, Len(dl.response.body)) IN
       /\ disk' = [ disk EXCEPT !.bytes = @ \o SubSeq(dl.response.body, 1, n) ]
       /\ dl' = [ dl EXCEPT !.response.body = From(@, n + 1), !.reads = @ + 1 ]
    /\ UNCHANGED remote
    /\ UNCHANGED << sessionAll, expiry, hop, BLAKE3_AVAILABLE, pool, parsed, searchVars >>

\* the body is exhausted: the loop ends, the file is closed, _download_url
\* returns
EndOfBody ==
    /\ dl.pc = "stream"
    /\ Len(dl.response.body) = 0
    /\ dl' = [ dl EXCEPT !.pc = "done" ]
    /\ UNCHANGED << remote, disk >>
    /\ UNCHANGED << sessionAll, expiry, hop, BLAKE3_AVAILABLE, pool, parsed, searchVars >>

\* the step as the mutant of C24 has it: the error is swallowed and the call
\* goes on to verification
StreamError_verifies ==
    /\ dl.pc = "stream"
    /\ Len(dl.response.body) > 0
    /\ dl' = [ dl EXCEPT !.pc = "done", !.error = "ConnectionError" ]
    /\ UNCHANGED << remote, disk >>
    /\ UNCHANGED << sessionAll, expiry, hop, BLAKE3_AVAILABLE, pool, parsed, searchVars >>

\* the connection breaks while the body is read: iter_content raises, the
\* with block closes the file
StreamError ==
    /\ dl.pc = "stream"
    /\ Len(dl.response.body) > 0
    /\ dl' = [ dl EXCEPT !.pc = "failed", !.error = "ConnectionError" ]
    /\ UNCHANGED << remote, disk >>
    /\ UNCHANGED << sessionAll, expiry, hop, BLAKE3_AVAILABLE, pool, parsed, searchVars >>

\* download after _download_url has returned: nothing more without check;
\* product["Checksum"] is indexed (KeyError when the descriptor has no such
\* key); an empty list is warned about; else the file is to be hashed
Check ==
    /\ dl.pc = "done"
    /\ IF ~dl.check
       THEN dl' = [ dl EXCEPT !.pc = "returned" ]
       ELSE IF "Checksum" \notin DOMAIN dl.product
       THEN dl' = [ dl EXCEPT !.pc = "raised", !.error = "KeyError" ]
       ELSE IF dl.product.Checksum = << >>
       THEN dl' = [ dl EXCEPT !.pc = "returned", !.warned = TRUE ]
       ELSE dl' = [ dl EXCEPT !.pc = "hash" ]
    /\ UNCHANGED << remote, disk >>
    /\ UNCHANGED << sessionAll, expiry, hop, BLAKE3_AVAILABLE, pool, parsed, searchVars >>

\* valid = _check_hash(path, product); a file that is not valid raises
\* Exception("Checksum of downloaded file does not match product info")
CheckHash ==
    /\ dl.pc = "hash"
    /\ LET checked == check_hash(disk.bytes, dl.product.Checksum, BLAKE3_AVAILABLE) IN
       dl' = [ dl EXCEPT
                 !.pc = IF checked.raised = "" /\ checked.valid
                        THEN "returned" ELSE "raised",
                 !.error = IF checked.raised # "" THEN checked.raised
                           ELSE IF checked.valid THEN @
                           ELSE "Exception: Checksum of downloaded file does not match product info" ]
    /\ UNCHANGED << remote, disk >>
    /\ UNCHANGED << sessionAll, expiry, hop, BLAKE3_AVAILABLE, pool, parsed, searchVars >>

\* download has returned or raised; the caller may call it again
Again ==
    /\ dl.pc \in { "returned", "raised", "failed" }
    /\ dl' = [ NotDownloading EXCEPT
                 !.interrupted = /\ dl.pc = "failed"
                                 /\ dl.error = "ConnectionError"
                                 /\ dl.opens > 0 ]
    /\ UNCHANGED << remote, disk >>
    /\ UNCHANGED << sessionAll, expiry, hop, BLAKE3_AVAILABLE, pool, parsed, searchVars >>

\* Before the first call the destination is absent, holds the first bytes
\* of the product (an earlier download), or holds other bytes.
InitDownload ==
    /\ InitSession({ [ net |-> TRUE, status |-> 200, json |-> TRUE,
                       body |-> [ access_token |-> 1, refresh_token |-> 1,
                                  expires_in |-> DEFAULT_BUFFER + ClockStep ] ] })
    /\ FnAtRest
    /\ PoolAtRest
    /\ ParseAtRest
    /\ SearchAtRest
    /\ remote \in [ length : 1 .. MaxLen, honours_range : BOOLEAN ]
    /\ disk \in ( { NoFile }
                  \cup { [ exists |-> TRUE, bytes |-> Content(n) ] : n \in 0 .. remote.length }
                  \cup { [ exists |-> TRUE, bytes |-> Stale(n) ] : n \in 1 .. MaxLen + 1 } )
    /\ dl = NotDownloading
    /\ BLAKE3_AVAILABLE \in BOOLEAN

NextDownload ==
    \/ \E product \in Products, check \in BOOLEAN : Download(product, check)
    \/ DownloadUrl
    \/ Get(Served(dl.headers # None, dl.downloaded_bytes))
    \/ \E r \in Refused : Get(r)
    \/ GetError
    \/ Open
    \/ WriteChunk
    \/ EndOfBody
    \/ StreamError
    \/ Check
    \/ CheckHash
    \/ Again

SpecDownload == InitDownload /\ [][NextDownload]_vars

\* C10: against an endpoint that honours Range and serves the content, a
\* call that finds a destination file as long as the remote product reads
\* nothing of the body, leaves the file as it was and returns.
C10_CompleteFileIsSkipped ==
    ( /\ remote.honours_range
      /\ dl.before.exists
      /\ Len(dl.before.bytes) = remote.length
      /\ dl.pc \in { "open", "stream", "done", "failed" }
      /\ dl.response \notin Refused
      /\ dl.error # "ConnectionError" ) =>
        /\ dl.pc = "done"
        /\ dl.reads = 0
        /\ disk = dl.before

\* the chosen algorithm's digest of the file is not the descriptor's value
Mismatch ==
    /\ "Checksum" \in DOMAIN dl.product
    /\ Hasher(dl.product.Checksum, BLAKE3_AVAILABLE) # ""
    /\ LET hasher == Hasher(dl.product.Checksum, BLAKE3_AVAILABLE) IN
       lower(hexdigest(hasher, disk.bytes))
          # lower(ChecksumOf(dl.product.Checksum, hasher).Value)

\* C11: against an endpoint that serves the content, a call that finds a
\* destination file longer than the remote product deletes it and writes
\* the product from its first byte on.
C11_LargerFileRestartsFromZero ==
    ( /\ dl.before.exists
      /\ Len(dl.before.bytes) > remote.length
      /\ dl.pc \in { "open", "stream", "done", "failed" }
      /\ dl.response \notin Refused
      /\ dl.error # "ConnectionError" ) =>
        /\ dl.pc # "failed"
        /\ dl.pc = "open" => ~disk.exists
        /\ dl.pc = "stream" => disk.bytes = Content(Len(disk.bytes))
        /\ dl.pc = "done" => disk.bytes = Content(remote.length)

\* C12: against an endpoint that honours Range, a call that follows one
\* interrupted with k bytes of the product on disk, 0 < k < length, and that
\* returns, leaves the file equal to the product.
C12_ResumeCompletesFile ==
    ( /\ remote.honours_range
      /\ dl.interrupted
      /\ dl.before.exists
      /\ Len(dl.before.bytes) > 0
      /\ Len(dl.before.bytes) < remote.length
      /\ dl.before.bytes = Content(Len(dl.before.bytes))
      /\ dl.pc \in { "done", "hash", "returned", "raised" } ) =>
        disk.bytes = Content(remote.length)

\* C13: the content request has Range: bytes=n- exactly when the file
\* exists at this call, n being its size at this call; else it has no Range.
C13_RangeFromCurrentSize ==
    \A i \in 1 .. Len(dl.requests) :
        dl.requests[i] = IF dl.before.exists
                         THEN RangeFrom(Len(dl.before.bytes))
                         ELSE None

\* a second call, after an interrupted one, asks for the rest from the
\* size the file has now
C13_Witness ==
    /\ dl.interrupted
    /\ Len(dl.requests) = 1
    /\ dl.requests[1] = RangeFrom(Len(dl.before.bytes))
    /\ Len(dl.before.bytes) = ChunkBytes

\* C14: a download with check whose transfer is complete and whose file's
\* digest is not the descriptor's value raises the checksum exception, and
\* verification leaves the file as the transfer left it.
C14_MismatchRaisesAndKeepsFile ==
    /\ []( ( dl.check /\ dl.pc \in { "returned", "raised" } /\ Mismatch ) =>
             /\ dl.pc = "raised"
             /\ dl.error = "Exception: Checksum of downloaded file does not match product info"
             /\ disk.exists )
    /\ [][ dl.pc \in { "done", "hash" } => disk' = disk ]_vars

\* a complete file whose descriptor has another MD5 value: download raised
\* and the file is the product
C14_Witness ==
    /\ dl.check
    /\ dl.pc = "raised"
    /\ Mismatch
    /\ Algorithms(dl.product.Checksum) = { "MD5" }
    /\ disk.exists
    /\ disk.bytes = Content(remote.length)
    /\ dl.reads > 0

\* C15: a download with check whose descriptor has no checksums, in the
\* primary shape (an empty Checksum list) or in the alternate shape (no
\* Checksum entry), warns and returns.
C15_NoChecksumsWarns ==
    ( /\ dl.check
      /\ dl.pc \in { "returned", "raised" }
      /\ \/ "Checksum" \notin DOMAIN dl.product
         \/ dl.product.Checksum = << >> ) =>
        /\ dl.pc = "returned"
        /\ dl.warned

\* C19: a content response that is not 2xx ends the call with an HTTPError
\* of that response, after one request, with the file as it was and no
\* verification.
C19_HttpErrorPropagates ==
    ( /\ dl.response # NoResponse
      /\ ~(dl.response.status >= 200 /\ dl.response.status < 300) ) =>
        /\ dl.pc = "failed"
        /\ dl.error = "HTTPError"
        /\ Len(dl.requests) = 1
        /\ dl.opens = 0
        /\ dl.reads = 0
        /\ disk = dl.before
        /\ ~dl.warned

\* a 404 for a file that exists already: the call failed and the file is as
\* it was
C19_Witness ==
    /\ dl.response.status = 404
    /\ dl.pc = "failed"
    /\ dl.before.exists
    /\ Len(dl.before.bytes) > 0
    /\ dl.check

\* C22: the length _download_url compares the file's size with is the
\* length of the whole remote product, also when the response is the
\* partial content of a ranged request.
C22_LengthIsTotal ==
    ( dl.response.status = 206 /\ dl.pc # "get" ) => dl.length = remote.length

\* the algorithm the descriptor and the build call for: BLAKE3 when the
\* descriptor has a BLAKE3 value and blake3 was imported, MD5 otherwise
Preferred ==
    IF "BLAKE3" \in Algorithms(dl.product.Checksum) /\ BLAKE3_AVAILABLE
    THEN "BLAKE3" ELSE "MD5"

C24_StrictOrder ==
    /\ []( /\ dl.opens <= 1
           /\ dl.pc \in { "open", "stream" } => Len(dl.requests) = 1 /\ ~dl.warned
           /\ dl.pc \in { "hash", "returned", "raised" } =>
                 /\ Len(dl.requests) = 1
                 /\ dl.opens = 0 \/ Len(dl.response.body) = 0
           /\ dl.error = "ConnectionError" => dl.pc = "failed" /\ ~dl.warned )
    /\ [][ /\ ( dl'.pc = "open" /\ dl.pc # "open" ) => dl.pc = "get"
           /\ ( dl'.pc = "stream" /\ dl.pc # "stream" ) => dl.pc = "open"
           /\ ( dl'.pc = "hash" /\ dl.pc # "hash" ) => dl.pc = "done"
           /\ ( dl'.pc \in { "returned", "raised" } /\ dl.pc # dl'.pc ) =>
                 dl.pc \in { "done", "hash" }
           /\ dl.pc = "failed" => dl'.pc \in { "failed", "idle" } ]_vars

\* a download with check whose streaming broke after a chunk was written
C24_Witness ==
    /\ dl.check
    /\ dl.pc = "failed"
    /\ dl.error = "ConnectionError"
    /\ dl.opens = 1
    /\ dl.reads > 0
    /\ dl.product.Checksum # << >>

(***************************************************************************)
(* SpecPool: Downloader.download_all on the Downloader's dl_executor, a    *)
(* ThreadPoolExecutor of max_num_workers threads.  A task is one call of   *)
(* download; it ends as download ends: it returns or raises.               *)
(***************************************************************************)

\* how a call of download ends
Outcomes == { "returned", "HTTPError", "ConnectionError", "Exception" }

Failed(task) == task.state = "done" /\ task.outcome # "returned"

Queued(tasks) == { i \in 1 .. Len(tasks) : tasks[i].state = "queued" }

Running(tasks) == { i \in 1 .. Len(tasks) : tasks[i].state = "running" }

\* the executor as the mutant of C18 has it: a thread for every task
Idle_unbounded(tasks, max_workers) == TRUE

\* ThreadPoolExecutor: a thread is free to take a task, at most max_workers
\* threads exist
Idle(tasks, max_workers) == Cardinality(Running(tasks)) < max_workers

\* the queue as the mutant of C16 has it: nothing is taken once a task has
\* failed
Takes_unless_failed(tasks) ==
    IF Queued(tasks) = { } \/ \E i \in 1 .. Len(tasks) : Failed(tasks[i]) THEN 0
    ELSE CHOOSE i \in Queued(tasks) : \A j \in Queued(tasks) : i <= j

\* the task a free thread takes from the executor's queue: the one submitted
\* first, 0 when the queue is empty
Takes(tasks) ==
    IF Queued(tasks) = { } THEN 0
    ELSE CHOOSE i \in Queued(tasks) : \A j \in Queued(tasks) : i <= j

\* the exit as the mutant of C29 has it: shutdown(wait=False)
Drained_no_wait(tasks) == TRUE

\* shutdown(wait=True) returns: every task has ended
Drained(tasks) == \A i \in 1 .. Len(tasks) : tasks[i].state = "done"

\* download_all(products, ...) is called with n descriptors; the with
\* statement enters the executor
DownloadAll(n) ==
    /\ pool.pc \in { "idle", "returned", "raised" }
    /\ pool.calls < MaxCalls
    /\ pool' = [ pool EXCEPT !.pc = "submitting", !.calls = @ + 1, !.batch = n,
                             !.submitted = 0, !.result = << >>, !.error = "" ]
    /\ UNCHANGED << sessionAll, expiry, hop, dlVars, parsed, searchVars >>

\* pool.submit(self.download, product, ...) for the next descriptor: an
\* executor that was shut down raises RuntimeError, which leaves the with
\* statement
Submit ==
    /\ pool.pc = "submitting"
    /\ pool.submitted < pool.batch
    /\ IF pool.shutdown
       THEN pool' = [ pool EXCEPT !.pc = "exiting", !.error = "RuntimeError" ]
       ELSE pool' = [ pool EXCEPT
                        !.submitted = @ + 1,
                        !.tasks = Append(@, [ state |-> "queued", outcome |-> "",
                                              product |-> pool.submitted + 1 ]) ]
    /\ UNCHANGED << sessionAll, expiry, hop, dlVars, parsed, searchVars >>

\* the comprehension is over: the with statement is left and the executor's
\* __exit__ calls shutdown(wait=True)
Exit ==
    /\ pool.pc = "submitting"
    /\ pool.submitted = pool.batch
    /\ pool' = [ pool EXCEPT !.pc = "exiting", !.shutdown = TRUE ]
    /\ UNCHANGED << sessionAll, expiry, hop, dlVars, parsed, searchVars >>

\* a free thread of the executor takes the next task and calls download
Start ==
    /\ Idle(pool.tasks, pool.max_workers)
    /\ Takes(pool.tasks) # 0
    /\ pool' = [ pool EXCEPT !.tasks[Takes(pool.tasks)].state = "running" ]
    /\ UNCHANGED << sessionAll, expiry, hop, dlVars, parsed, searchVars >>

\* download of task i returns or raises: the outcome is kept in the task's
\* future
Finish(i, outcome) ==
    /\ i \in Running(pool.tasks)
    /\ pool' = [ pool EXCEPT !.tasks[i].state = "done",
                             !.tasks[i].outcome = outcome ]
    /\ UNCHANGED << sessionAll, expiry, hop, dlVars, parsed, searchVars >>

\* what download_all hands to its caller: the list of futures is dropped,
\* the function returns None
Returned(tasks) == << >>

\* shutdown(wait=True) has waited for every task: download_all returns, or
\* raises what submit raised
ReturnAll ==
    /\ pool.pc = "exiting"
    /\ Drained(pool.tasks)
    /\ pool' = [ pool EXCEPT !.pc = IF pool.error = "" THEN "returned" ELSE "raised",
                             !.shutdown = TRUE,
                             !.result = Returned(pool.tasks) ]
    /\ UNCHANGED << sessionAll, expiry, hop, dlVars, parsed, searchVars >>

\* A Downloader constructed with max_num_workers given, or with the default.
InitPool ==
    /\ InitSession({ [ net |-> TRUE, status |-> 200, json |-> TRUE,
                       body |-> [ access_token |-> 1, refresh_token |-> 1,
                                  expires_in |-> DEFAULT_BUFFER + ClockStep ] ] })
    /\ FnAtRest
    /\ DlAtRest
    /\ ParseAtRest
    /\ SearchAtRest
    /\ pool \in ( { NoPool(n, FALSE) : n \in 1 .. MaxWorkersArg }
                  \cup { NoPool(DEFAULT_MAX_NUM_WORKERS, TRUE) } )

NextPool ==
    \/ \E n \in 0 .. MaxBatch : DownloadAll(n)
    \/ Submit
    \/ Exit
    \/ Start
    \/ \E i \in 1 .. MaxBatch, outcome \in Outcomes : Finish(i, outcome)
    \/ ReturnAll

SpecPool == InitPool /\ [][NextPool]_vars

\* C16: a failed download neither cancels nor blocks the others: a queued
\* task is taken as soon as a thread is free, a step that ends one task
\* leaves the others as they are, and when the first download_all returns
\* every descriptor's download has run to its own end.
C16_FailureIsIsolated ==
    /\ []( ( Queued(pool.tasks) # { }
             /\ Cardinality(Running(pool.tasks)) < pool.max_workers )
           => ENABLED Start )
    /\ []( ( pool.calls = 1 /\ pool.pc = "returned" ) =>
             /\ Len(pool.tasks) = pool.batch
             /\ \A i \in 1 .. pool.batch : pool.tasks[i].outcome \in Outcomes )
    /\ [][ \A i \in 1 .. Len(pool.tasks) :
             ( pool.tasks[i].state = "running" /\ Failed(pool'.tasks[i]) ) =>
               \A j \in 1 .. Len(pool.tasks) :
                  j # i => pool'.tasks[j] = pool.tasks[j] ]_vars

\* a batch of three returned with a failed download between two that
\* succeeded after it
C16_Witness ==
    /\ pool.calls = 1
    /\ pool.pc = "returned"
    /\ pool.batch = 3
    /\ pool.max_workers = 1
    /\ pool.tasks[1].outcome = "Exception"
    /\ pool.tasks[2].outcome = "returned"
    /\ pool.tasks[3].outcome = "returned"

\* C17: when download_all has returned, its caller holds one outcome per
\* descriptor, the exception of a failed download included.
C17_OneOutcomePerDescriptor ==
    pool.pc = "returned" =>
        /\ Len(pool.result) = pool.batch
        /\ \A i \in 1 .. pool.batch : pool.result[i] = pool.tasks[i].outcome

\* C18: the first download_all submits one download per descriptor, and
\* never more than max_num_workers downloads run at once, 4 by default.
C18_BoundedConcurrency ==
    /\ Cardinality(Running(pool.tasks)) <= pool.max_workers
    /\ pool.defaulted => pool.max_workers = 4
    /\ ( pool.calls = 1 /\ pool.pc \in { "exiting", "returned" } ) =>
          /\ Len(pool.tasks) = pool.batch
          /\ \A i \in 1 .. pool.batch : pool.tasks[i].product = i

\* a batch of five on the default pool: four run, the fifth waits
C18_Witness ==
    /\ pool.defaulted
    /\ pool.batch = 5
    /\ Cardinality(Running(pool.tasks)) = 4
    /\ Cardinality(Queued(pool.tasks)) = 1

\* C28: every download_all on the Downloader, a second one included,
\* returns after it has submitted one download per descriptor.
C28_EveryCallSubmits ==
    pool.pc \in { "returned", "raised" } =>
        /\ pool.pc = "returned"
        /\ pool.submitted = pool.batch

\* C29: when download_all returns or raises, every download submitted to
\* the executor has ended: none waits in the queue, none runs.
C29_ReturnsAfterAllEnded ==
    pool.pc \in { "returned", "raised" } =>
        /\ Queued(pool.tasks) = { }
        /\ Running(pool.tasks) = { }
        /\ \A i \in 1 .. Len(pool.tasks) : pool.tasks[i].outcome \in Outcomes

\* a batch of three on one thread has returned: the three downloads have
\* ended, one of them in failure
C29_Witness ==
    /\ pool.pc = "returned"
    /\ pool.max_workers = 1
    /\ Len(pool.tasks) = 3
    /\ pool.tasks[3].outcome = "ConnectionError"
    /\ Drained(pool.tasks)

(***************************************************************************)
(* SpecParse: utils.parse_datetime_to_components.  A string is a sequence  *)
(* of tokens, each a date or a slash; a datetime has an hour and a         *)
(* timezone; a component is None, a string or a datetime.                  *)
(***************************************************************************)

Tokens == { "/", "2020-01-01", "2020-01-02" }

Texts(n) == UNION { [ 1 .. k -> Tokens ] : k \in 0 .. n }

NoneC == [ kind |-> "None", text |-> << >>, hour |-> 0, tz |-> "" ]

Str(text) == [ kind |-> "str", text |-> text, hour |-> 0, tz |-> "" ]

Datetime(hour, tz) == [ kind |-> "datetime", text |-> << >>, hour |-> hour, tz |-> tz ]

Datetimes == { Datetime(h, z) : h \in 1 .. 2, z \in { "naive", "UTC", "+01:00" } }

\* the values parse_datetime_to_components is called with: a datetime, a
\* string, or a list of components
DatetimeLikes ==
    { [ kind |-> "datetime", parts |-> << d >> ] : d \in Datetimes }
    \cup { [ kind |-> "str", parts |-> << Str(t) >> ] : t \in Texts(MaxText) }
    \cup { [ kind |-> "list", parts |-> l ] :
             l \in UNION { [ 1 .. k -> { NoneC } \cup Datetimes
                                       \cup { Str(t) : t \in Texts(1) } ] :
                           k \in 0 .. MaxList } }

\* make_datetime_utc: a naive datetime is taken as UTC, an aware one is
\* converted
make_datetime_utc(dt) ==
    IF dt.tz = "+01:00" THEN Datetime(dt.hour - 1, "UTC")
    ELSE Datetime(dt.hour, "UTC")

\* value.split("/"): the pieces between the slashes, empty ones included
split(text) ==
    LET RECURSIVE pieces(_, _)
        pieces(rest, piece) ==
            IF rest = << >> THEN << piece >>
            ELSE IF Head(rest) = "/" THEN << piece >> \o pieces(Tail(rest), << >>)
            ELSE pieces(Tail(rest), Append(piece, Head(rest)))
    IN pieces(text, << >>)

\* dateutil's parse reads a string that is one date
Parseable(text) == Len(text) = 1 /\ text[1] # "/"

\* dt_parse(component): the naive datetime of the date
dt_parse(text) == Datetime(IF text[1] = "2020-01-01" THEN 1 ELSE 2, "naive")

\* bool(component): None and the empty string are false
Truthy(component) == component.kind # "None" /\ component # Str(<< >>)

\* the components of the value: a datetime with None, the pieces of a
\* string (with None when there is one piece), or the list itself
Components(value) ==
    IF value.kind = "datetime" THEN << make_datetime_utc(value.parts[1]), NoneC >>
    ELSE IF value.kind = "str"
    THEN LET pieces == split(value.parts[1].text)
             components == [ i \in 1 .. Len(pieces) |-> Str(pieces[i]) ]
         IN IF Len(components) = 1 THEN Append(components, NoneC) ELSE components
    ELSE value.parts

\* the loop over the components: each one that is true is parsed when it
\* is a string and made UTC, the others become None
DatetimeComponents(components) ==
    [ i \in 1 .. Len(components) |->
        IF ~Truthy(components[i]) THEN NoneC
        ELSE IF components[i].kind = "str"
        THEN make_datetime_utc(dt_parse(components[i].text))
        ELSE make_datetime_utc(components[i]) ]

\* the checks as the mutant of C20 has them: the open-ended check first
Verdict_open_ended_first(datetime_components) ==
    IF \A i \in 1 .. Len(datetime_components) : datetime_components[i] = NoneC
    THEN "cannot create a double open-ended interval"
    ELSE IF Len(datetime_components) # 2
    THEN "too many/few datetime components"
    ELSE ""

\* the checks on the result: its length, then whether it is open on both
\* ends
Verdict(datetime_components) ==
    IF Len(datetime_components) # 2
    THEN "too many/few datetime components"
    ELSE IF \A i \in 1 .. Len(datetime_components) : datetime_components[i] = NoneC
    THEN "cannot create a double open-ended interval"
    ELSE ""

\* parse_datetime_to_components(value): dt_parse raises ParserError at the
\* first string it cannot read
parse_datetime_to_components(value) ==
    LET components == Components(value) IN
    IF \E i \in 1 .. Len(components) :
          /\ Truthy(components[i])
          /\ components[i].kind = "str"
          /\ ~Parseable(components[i].text)
    THEN [ result |-> << >>, error |-> "ParserError" ]
    ELSE LET datetime_components == DatetimeComponents(components) IN
         [ result |-> IF Verdict(datetime_components) = ""
                      THEN datetime_components ELSE << >>,
           error |-> Verdict(datetime_components) ]

\* one call of parse_datetime_to_components
Parse(value) ==
    /\ ~parsed.called
    /\ parsed' = [ called |-> TRUE, value |-> value,
                   result |-> parse_datetime_to_components(value).result,
                   error |-> parse_datetime_to_components(value).error ]
    /\ UNCHANGED << sessionAll, expiry, hop, dlVars, pool, searchVars >>

\* the caller has used the result
Forget ==
    /\ parsed.called
    /\ parsed' = NotParsed
    /\ UNCHANGED << sessionAll, expiry, hop, dlVars, pool, searchVars >>

InitParse ==
    /\ InitSession({ [ net |-> TRUE, status |-> 200, json |-> TRUE,
                       body |-> [ access_token |-> 1, refresh_token |-> 1,
                                  expires_in |-> DEFAULT_BUFFER + ClockStep ] ] })
    /\ FnAtRest
    /\ DlAtRest
    /\ PoolAtRest
    /\ ParseAtRest
    /\ SearchAtRest

NextParse ==
    \/ \E value \in DatetimeLikes : Parse(value)
    \/ Forget

SpecParse == InitParse /\ [][NextParse]_vars

\* the slashes of a string
Slashes(text) == Cardinality({ i \in 1 .. Len(text) : text[i] = "/" })

\* every piece of the string, or every string of the list, is empty or one
\* date
Readable(value) ==
    IF value.kind = "str"
    THEN \A i \in 1 .. Len(value.parts[1].text) - 1 :
            value.parts[1].text[i] = "/" \/ value.parts[1].text[i + 1] = "/"
    ELSE \A i \in 1 .. Len(value.parts) :
            value.parts[i].kind = "str" => Len(value.parts[i].text) <= 1
                                           /\ value.parts[i].text # << "/" >>

\* the components the value stands for: two for a datetime and for a string
\* without a slash, one more than the slashes of a string, the elements of
\* a list
Count(value) ==
    IF value.kind = "datetime" THEN 2
    ELSE IF value.kind = "str"
    THEN IF Slashes(value.parts[1].text) = 0 THEN 2
         ELSE Slashes(value.parts[1].text) + 1
    ELSE Len(value.parts)

\* the value has no date at all
AllOpen(value) ==
    IF value.kind = "datetime" THEN FALSE
    ELSE IF value.kind = "str"
    THEN \A i \in 1 .. Len(value.parts[1].text) : value.parts[1].text[i] = "/"
    ELSE \A i \in 1 .. Len(value.parts) : ~Truthy(value.parts[i])

\* C20: for a value whose strings are dates, parse_datetime_to_components
\* returns two components when the value has two components that are not
\* both None, raises the double open-ended error when it has two that are
\* both None, and raises the too many/few error when it has another number
\* of components, none included.
C20_TwoComponentsOrError ==
    ( parsed.called /\ Readable(parsed.value) ) =>
        /\ ( Count(parsed.value) = 2 /\ ~AllOpen(parsed.value) ) =>
              /\ parsed.error = ""
              /\ Len(parsed.result) = 2
        /\ ( Count(parsed.value) = 2 /\ AllOpen(parsed.value) ) =>
              parsed.error = "cannot create a double open-ended interval"
        /\ Count(parsed.value) # 2 =>
              parsed.error = "too many/few datetime components"
        /\ parsed.error = "" => Len(parsed.result) = 2

\* the empty list: too many/few
C20_Witness ==
    /\ parsed.called
    /\ parsed.value = [ kind |-> "list", parts |-> << >> ]
    /\ parsed.error = "too many/few datetime components"

(***************************************************************************)
(* SpecSearch: the generator SearchBase.get(limit) of the OData search and *)
(* its consumer.                                                           *)
(***************************************************************************)

Max(a, b) == IF a >= b THEN a ELSE b

\* x or default
Or(x, default) == IF x = NotGiven \/ x = Given(0) THEN default ELSE x[1]

\* self._parameters["top"] = min(max(top or 0, limit or 20), 1000)
Top(top, limit) == Min(Max(Or(top, 0), Or(limit, DEFAULT_TOP)), MAX_TOP)

\* the slice as the mutant of C21 has it: the chain is not sliced
Stops_never(limit, returned) == FALSE

\* itertools.islice(..., limit): the slice is exhausted after limit items
Stops(limit, returned) == limit # NotGiven /\ returned >= limit[1]

\* get(limit): top is set; the generator is created
SearchGet(limit) ==
    /\ odata.pc = "idle"
    /\ odata' = [ odata EXCEPT !.pc = "next", !.limit = limit,
                               !.top = Given(Top(odata.top, limit)),
                               !.next_link = 1 ]
    /\ UNCHANGED << sessionAll, expiry, hop, dlVars, pool, parsed, opensearch >>

\* pages(): content = self._get(next_link); the page's products and its
\* @odata.nextLink are read
FetchPage ==
    /\ odata.pc = "next"
    /\ ~Stops(odata.limit, odata.returned)
    /\ odata.page_results = 0
    /\ odata.next_link # 0
    /\ odata' = [ odata EXCEPT
                    !.page_results = odata.pages[odata.next_link],
                    !.next_link = IF odata.next_link < Len(odata.pages)
                                  THEN odata.next_link + 1 ELSE 0,
                    !.requests = @ + 1 ]
    /\ UNCHANGED << sessionAll, expiry, hop, dlVars, pool, parsed, opensearch >>

\* self._get raises: the exception leaves the generator
FetchError ==
    /\ odata.pc = "next"
    /\ ~Stops(odata.limit, odata.returned)
    /\ odata.page_results = 0
    /\ odata.next_link # 0
    /\ odata' = [ odata EXCEPT !.pc = "failed", !.requests = @ + 1 ]
    /\ UNCHANGED << sessionAll, expiry, hop, dlVars, pool, parsed, opensearch >>

\* the next product of the page is yielded
YieldProduct ==
    /\ odata.pc = "next"
    /\ ~Stops(odata.limit, odata.returned)
    /\ odata.page_results > 0
    /\ odata' = [ odata EXCEPT !.page_results = @ - 1, !.returned = @ + 1 ]
    /\ UNCHANGED << sessionAll, expiry, hop, dlVars, pool, parsed, opensearch >>

\* the slice or the pages are exhausted: the generator ends
StopIteration ==
    /\ odata.pc = "next"
    /\ \/ Stops(odata.limit, odata.returned)
       \/ odata.page_results = 0 /\ odata.next_link = 0
    /\ odata' = [ odata EXCEPT !.pc = "done" ]
    /\ UNCHANGED << sessionAll, expiry, hop, dlVars, pool, parsed, opensearch >>

\* the search object is used for another get: top stays as get set it
SearchAgain ==
    /\ odata.pc \in { "done", "failed" }
    /\ odata' = [ NoSearch EXCEPT !.pages = odata.pages, !.top = odata.top ]
    /\ UNCHANGED << sessionAll, expiry, hop, dlVars, pool, parsed, opensearch >>

\* the products of all the pages
RECURSIVE Total(_)
Total(pages) == IF pages = << >> THEN 0 ELSE Head(pages) + Total(Tail(pages))

InitSearch ==
    /\ InitSession({ [ net |-> TRUE, status |-> 200, json |-> TRUE,
                       body |-> [ access_token |-> 1, refresh_token |-> 1,
                                  expires_in |-> DEFAULT_BUFFER + ClockStep ] ] })
    /\ FnAtRest
    /\ DlAtRest
    /\ PoolAtRest
    /\ ParseAtRest
    /\ opensearch = NoOpenSearch
    /\ odata \in { [ NoSearch EXCEPT !.pages = p, !.top = t ] :
                     p \in UNION { [ 1 .. k -> 0 .. MaxPageSize ] : k \in 1 .. MaxPages },
                     t \in { NotGiven } \cup { Given(n) : n \in { 1, MAX_TOP + 1 } } }

NextSearch ==
    \/ \E limit \in { NotGiven } \cup { Given(n) : n \in 0 .. MaxLimit } : SearchGet(limit)
    \/ FetchPage
    \/ FetchError
    \/ YieldProduct
    \/ StopIteration
    \/ SearchAgain

SpecSearch == InitSearch /\ [][NextSearch]_vars

\* C21: get(limit) never returns more than limit products, and when it has
\* ended it has returned limit products if the pages hold that many.
C21_UpToLimit ==
    odata.limit # NotGiven =>
        /\ odata.returned <= odata.limit[1]
        /\ ( odata.pc = "done" /\ Total(odata.pages) >= odata.limit[1] ) =>
              odata.returned = odata.limit[1]
        /\ ( odata.pc = "done" /\ Total(odata.pages) < odata.limit[1] ) =>
              odata.returned = Total(odata.pages)

\* three products asked of pages of two, none and two: the third page was
\* fetched and one of its products returned
C21_Witness ==
    /\ odata.pc = "done"
    /\ odata.limit = Given(3)
    /\ odata.pages = << 2, 0, 2 >>
    /\ odata.requests = 3
    /\ odata.returned = 3

(***************************************************************************)
(* SpecOpenSearch: the generator ProductSearch.get of the OpenSearch       *)
(* search and its consumer.  A url is the index of the page it names.      *)
(***************************************************************************)

\* params["maxRecords"] = min(page_size, limit) if limit else page_size
MaxRecords(page_size, limit) ==
    IF limit = NotGiven \/ limit = Given(0) THEN page_size ELSE Min(page_size, limit[1])

\* next((link for link in links if link.get("rel") == "next"), None):
\* the href of the link, 0 for None
NextLink(pages, url) == IF pages[url].links = "next" THEN url + 1 ELSE 0

\* get(page_size, ..., limit): the locals before the loop
OpenSearchGet(page_size, limit) ==
    /\ opensearch.pc = "idle"
    /\ opensearch' = [ opensearch EXCEPT
                         !.pc = "while", !.limit = limit,
                         !.params = Given(MaxRecords(page_size, limit)),
                         !.url = 1, !.more_results = TRUE, !.count = 0,
                         !.next_link = 0 ]
    /\ UNCHANGED << sessionAll, expiry, hop, dlVars, pool, parsed, odata >>

\* while more_results: content = self._get(url, params); features and
\* links are read; next_link is assigned only if the page has links
GetPage ==
    /\ opensearch.pc = "while"
    /\ opensearch.more_results
    /\ opensearch.requests < MaxRequests
    /\ LET page == opensearch.pages[opensearch.url]
           next_link == IF page.links # "none"
                        THEN NextLink(opensearch.pages, opensearch.url)
                        ELSE opensearch.next_link
           follows == page.links # "none" /\ next_link # 0
       IN  opensearch' = [ opensearch EXCEPT
                             !.pc = "for",
                             !.page_results = page.features,
                             !.next_link = next_link,
                             !.url = IF follows THEN next_link ELSE @,
                             !.params = IF follows THEN NotGiven ELSE @,
                             !.more_results = next_link # 0,
                             !.requests = @ + 1,
                             !.ended = page.links # "next",
                             !.after_last = IF opensearch.ended THEN @ + 1 ELSE @ ]
    /\ UNCHANGED << sessionAll, expiry, hop, dlVars, pool, parsed, odata >>

\* self._get raises: the exception leaves the generator
GetPageError ==
    /\ opensearch.pc = "while"
    /\ opensearch.more_results
    /\ opensearch.requests < MaxRequests
    /\ opensearch' = [ opensearch EXCEPT
                         !.pc = "failed", !.requests = @ + 1,
                         !.after_last = IF opensearch.ended THEN @ + 1 ELSE @ ]
    /\ UNCHANGED << sessionAll, expiry, hop, dlVars, pool, parsed, odata >>

\* for i in page_results: limit is not None and count < limit: yield i
YieldFeature ==
    /\ opensearch.pc = "for"
    /\ opensearch.page_results > 0
    /\ opensearch.limit # NotGiven
    /\ opensearch.count < opensearch.limit[1]
    /\ opensearch' = [ opensearch EXCEPT !.page_results = @ - 1, !.count = @ + 1 ]
    /\ UNCHANGED << sessionAll, expiry, hop, dlVars, pool, parsed, odata >>

\* else: more_results = False; break
Break ==
    /\ opensearch.pc = "for"
    /\ opensearch.page_results > 0
    /\ ~ ( opensearch.limit # NotGiven /\ opensearch.count < opensearch.limit[1] )
    /\ opensearch' = [ opensearch EXCEPT !.pc = "while", !.more_results = FALSE ]
    /\ UNCHANGED << sessionAll, expiry, hop, dlVars, pool, parsed, odata >>

\* the features of the page are exhausted
EndOfPage ==
    /\ opensearch.pc = "for"
    /\ opensearch.page_results = 0
    /\ opensearch' = [ opensearch EXCEPT !.pc = "while" ]
    /\ UNCHANGED << sessionAll, expiry, hop, dlVars, pool, parsed, odata >>

\* while more_results is false: the generator ends
EndOfResults ==
    /\ opensearch.pc = "while"
    /\ ~opensearch.more_results
    /\ opensearch' = [ opensearch EXCEPT !.pc = "done" ]
    /\ UNCHANGED << sessionAll, expiry, hop, dlVars, pool, parsed, odata >>

\* another get of the same search
OpenSearchAgain ==
    /\ opensearch.pc \in { "done", "failed" }
    /\ opensearch' = [ NoOpenSearch EXCEPT !.pages = opensearch.pages ]
    /\ UNCHANGED << sessionAll, expiry, hop, dlVars, pool, parsed, odata >>

\* the finite chains of pages: every page but the last links to the next
Chains ==
    { p \in UNION { [ 1 .. k -> [ features : 0 .. MaxPageSize,
                                  links : { "next", "other", "none" } ] ] :
                    k \in 1 .. MaxPages } :
        \A i \in 1 .. Len(p) : ( p[i].links = "next" ) <=> ( i < Len(p) ) }

InitOpenSearch ==
    /\ InitSession({ [ net |-> TRUE, status |-> 200, json |-> TRUE,
                       body |-> [ access_token |-> 1, refresh_token |-> 1,
                                  expires_in |-> DEFAULT_BUFFER + ClockStep ] ] })
    /\ FnAtRest
    /\ DlAtRest
    /\ PoolAtRest
    /\ ParseAtRest
    /\ odata = NoSearch
    /\ opensearch \in { [ NoOpenSearch EXCEPT !.pages = p ] : p \in Chains }

NextOpenSearch ==
    \/ \E page_size \in 1 .. MaxPageSize,
          limit \in { NotGiven } \cup { Given(n) : n \in 0 .. MaxLimit } :
            OpenSearchGet(page_size, limit)
    \/ GetPage
    \/ GetPageError
    \/ YieldFeature
    \/ Break
    \/ EndOfPage
    \/ EndOfResults
    \/ OpenSearchAgain

SpecOpenSearch == InitOpenSearch /\ [][NextOpenSearch]_vars

\* C30: once get has received a page that carries no link with rel "next",
\* it requests no further page.
C30_NoRequestAfterLastPage == opensearch.after_last = 0

====
